---- MODULE Spec2Model ----
(***************************************************************************)
(* Model of the socket layer of Backend/app.js.  The file holds two        *)
(* revisions of the server one after the other: the first registers the    *)
(* sendMessage / markAsRead handlers and a setUsername handler that stores *)
(* the label on the socket (lines 60-126), the second registers the        *)
(* presence handlers around the onlineUsers map (lines 308-329).  The      *)
(* model is the server that has all of these handlers registered on every  *)
(* connection.                                                             *)
(*                                                                         *)
(* An async handler runs synchronously up to its first await; the part     *)
(* after the await runs in one piece when the store call settles.  Each    *)
(* store call either resolves (the write is applied) or rejects.           *)
(***************************************************************************)
EXTENDS Integers, Sequences, FiniteSets, Bags, TLC

\* ---------------------------------------------------------------- bounds
MaxSockets == 2        \* connections opened over the run
MaxMessages == 1       \* sendMessage calls that reach Message.create
MaxTasks == 2          \* handlers suspended at an await at the same time

\* ---------------------------------------------------------------- values
Undefined == "<undefined>"
Null == "<null>"
Labels == {"alice", "bob"}
UsernameInputs == Labels \cup {""}
SenderInputs == {"", "alice"}
ReceiverInputs == Labels \cup {Undefined}
ContentInputs == {"", "hi"}

\* JavaScript truthiness of the string-or-missing values used here
Truthy(x) == x \notin {"", Undefined, Null}

\* message.receiver || null
OrNull(x) == IF Truthy(x) THEN x ELSE Null

VARIABLES
  sockets,      \* io.sockets.sockets: the connected Socket objects [id, username], in insertion order
  nextId,       \* next connection id the transport hands out
  onlineUsers,  \* the onlineUsers Map, as the sequence of its [id, name] entries
  userStatus,   \* User collection: status field of the record of each label (every label is signed up)
  messages,     \* Message collection, in insertion order; _id is the position
  now,          \* the clock read by new Date(); it advances with every Message.create issued
  tasks,        \* handlers suspended at an await
  proc,         \* "running", or "crashed" after an unhandled rejection ended the process
  last,         \* what the most recent step did and emitted
  sent,         \* history: payload of the most recent onlineUsers event, <<>> before the first
  observe       \* whether the run keeps the history in sent

vars == <<sockets, nextId, onlineUsers, userStatus, messages, now, tasks, proc, last, sent, observe>>

SocketIds == 1..MaxSockets
Live == {sockets[i].id : i \in 1..Len(sockets)}

\* ------------------------------------------------------------ Map helpers
MapHas(m, k) == \E i \in 1..Len(m) : m[i].id = k
MapGet(m, k) == IF MapHas(m, k) THEN (CHOOSE e \in {m[i] : i \in 1..Len(m)} : e.id = k).name ELSE Undefined
\* a registry kept as a list that is only pushed to
MapSetAppend(m, k, v) == Append(m, [id |-> k, name |-> v])
MapSet(m, k, v) ==
  IF MapHas(m, k) THEN [i \in 1..Len(m) |-> IF m[i].id = k THEN [id |-> k, name |-> v] ELSE m[i]]
  ELSE Append(m, [id |-> k, name |-> v])
MapDelete(m, k) == SelectSeq(m, LAMBDA e : e.id # k)
\* Array.from(new Set(onlineUsers.values()))
MapValuesDistinct(m) ==
  LET keep == {i \in 1..Len(m) : \A j \in 1..(i - 1) : m[j].name # m[i].name}
      pos(n) == CHOOSE i \in keep : Cardinality({j \in keep : j <= i}) = n
  IN [n \in 1..Cardinality(keep) |-> m[pos(n)].name]
MapValues(m) == [i \in 1..Len(m) |-> m[i].name]

\* ------------------------------------------------------------------ tasks
\* before: history kept for the properties, not read by any handler; for a
\* sendMessage task, whether the receiver was connected when the handler started
NoTask == [h |-> "idle", sock |-> 0, name |-> "", sender |-> "", receiver |-> "", content |-> "", ts |-> 0, id |-> 0,
           before |-> FALSE]
Suspend(k) == tasks (+) SetToBag({k})
Resume(k) == tasks (-) SetToBag({k})
Pending == BagToSet(tasks)
CanSuspend == BagCardinality(tasks) < MaxTasks

\* ---------------------------------------------------------- step records
NoMsg == [id |-> 0, sender |-> "", receiver |-> "", content |-> "", timestamp |-> 0, isDelivered |-> FALSE, isRead |-> FALSE]
\* before: for sendMessageDone the task's history flag, for markAsReadDone the
\* stored isRead that the save overwrote
Quiet == [op |-> "init", sock |-> 0, name |-> "", sender |-> "", receiver |-> "", content |-> "",
          emit |-> "none", to |-> {}, msg |-> NoMsg, users |-> <<>>, before |-> FALSE]

\* the server right after start, no client connected yet
Boot ==
  /\ sockets = <<>>
  /\ nextId = 1
  /\ onlineUsers = <<>>
  /\ userStatus = [l \in Labels |-> "offline"]
  /\ messages = <<>>
  /\ now = 1
  /\ tasks = EmptyBag
  /\ proc = "running"
  /\ last = Quiet
  /\ sent = <<>>

Init == Boot /\ observe = FALSE

InitObserved == Boot /\ observe = TRUE

\* io.on("connection")
Connect ==
  /\ proc = "running"
  /\ nextId <= MaxSockets
  /\ sockets' = Append(sockets, [id |-> nextId, username |-> Undefined])
  /\ nextId' = nextId + 1
  /\ last' = [Quiet EXCEPT !.op = "connect", !.sock = nextId]
  /\ UNCHANGED <<onlineUsers, userStatus, messages, now, tasks, proc, sent, observe>>

\* socket.broadcast.emit in place of io.emit: everyone but the emitting socket
IoEmitOthers(from) == Live \ {from}

\* io.emit(...): every connected socket of the namespace
IoEmit(from) == Live

\* an awaited store call rejected outside any try/catch: the rejection is
\* unhandled, and the runtime either only warns or ends the process
UnhandledRejection(op, k) ==
  /\ last' = [Quiet EXCEPT !.op = op, !.sock = k.sock, !.name = k.name]
  /\ \/ /\ proc' = "running"
        /\ tasks' = Resume(k)
        /\ UNCHANGED <<sockets, onlineUsers>>
     \/ /\ proc' = "crashed"
        /\ tasks' = EmptyBag
        /\ sockets' = <<>>
        /\ onlineUsers' = <<>>

\* User.findOneAndUpdate({ username }, { status }): no upsert
SetStatus(st, name, status) == IF name \in DOMAIN st THEN [st EXCEPT ![name] = status] ELSE st

\* socket.on("setUsername"), both registrations, up to the await
SetUsername(s, name) ==
  /\ proc = "running"
  /\ s \in Live
  /\ CanSuspend
  /\ sockets' = [i \in 1..Len(sockets) |-> IF sockets[i].id = s THEN [sockets[i] EXCEPT !.username = name] ELSE sockets[i]]
  /\ onlineUsers' = MapSet(onlineUsers, s, name)
  /\ tasks' = Suspend([NoTask EXCEPT !.h = "setUsername", !.sock = s, !.name = name])
  /\ last' = [Quiet EXCEPT !.op = "setUsername", !.sock = s, !.name = name]
  /\ UNCHANGED <<nextId, userStatus, messages, now, proc, sent, observe>>

\* setUsername after the status write resolved
SetUsernameDone(k) ==
  /\ proc = "running"
  /\ k.h = "setUsername"
  /\ userStatus' = SetStatus(userStatus, k.name, "online")
  /\ tasks' = Resume(k)
  /\ last' = [Quiet EXCEPT !.op = "setUsernameDone", !.sock = k.sock, !.name = k.name,
                           !.emit = "onlineUsers", !.to = IoEmit(k.sock), !.users = MapValues(onlineUsers)]
  /\ sent' = IF observe THEN MapValues(onlineUsers) ELSE sent
  /\ UNCHANGED <<sockets, nextId, onlineUsers, messages, now, proc, observe>>

\* setUsername when the status write rejected
SetUsernameFail(k) ==
  /\ proc = "running"
  /\ k.h = "setUsername"
  /\ UnhandledRejection("setUsernameFail", k)
  /\ UNCHANGED <<nextId, userStatus, messages, now, sent, observe>>

\* the handler without its if (username)
DisconnectNoGuard(s) ==
  /\ proc = "running"
  /\ s \in Live
  /\ CanSuspend
  /\ sockets' = SelectSeq(sockets, LAMBDA x : x.id # s)
  /\ tasks' = Suspend([NoTask EXCEPT !.h = "disconnect", !.sock = s, !.name = MapGet(onlineUsers, s)])
  /\ last' = [Quiet EXCEPT !.op = "disconnect", !.sock = s, !.name = MapGet(onlineUsers, s)]
  /\ UNCHANGED <<nextId, onlineUsers, userStatus, messages, now, proc, sent, observe>>

\* transport close, then socket.on("disconnect"), both registrations, up to the await
Disconnect(s) ==
  /\ proc = "running"
  /\ s \in Live
  /\ Truthy(MapGet(onlineUsers, s)) => CanSuspend
  /\ sockets' = SelectSeq(sockets, LAMBDA x : x.id # s)
  /\ LET name == MapGet(onlineUsers, s) IN
       /\ tasks' = IF Truthy(name)
                   THEN Suspend([NoTask EXCEPT !.h = "disconnect", !.sock = s, !.name = name])
                   ELSE tasks
       /\ last' = [Quiet EXCEPT !.op = "disconnect", !.sock = s, !.name = name]
  /\ UNCHANGED <<nextId, onlineUsers, userStatus, messages, now, proc, sent, observe>>

\* the emit placed before onlineUsers.delete
DisconnectDoneEmitFirst(k) ==
  /\ proc = "running"
  /\ k.h = "disconnect"
  /\ userStatus' = SetStatus(userStatus, k.name, "offline")
  /\ onlineUsers' = MapDelete(onlineUsers, k.sock)
  /\ tasks' = Resume(k)
  /\ last' = [Quiet EXCEPT !.op = "disconnectDone", !.sock = k.sock, !.name = k.name,
                           !.emit = "onlineUsers", !.to = IoEmit(k.sock), !.users = MapValues(onlineUsers)]
  /\ sent' = IF observe THEN MapValues(onlineUsers) ELSE sent
  /\ UNCHANGED <<sockets, nextId, messages, now, proc, observe>>

\* disconnect after the status write resolved
DisconnectDone(k) ==
  /\ proc = "running"
  /\ k.h = "disconnect"
  /\ userStatus' = SetStatus(userStatus, k.name, "offline")
  /\ onlineUsers' = MapDelete(onlineUsers, k.sock)
  /\ tasks' = Resume(k)
  /\ last' = [Quiet EXCEPT !.op = "disconnectDone", !.sock = k.sock, !.name = k.name,
                           !.emit = "onlineUsers", !.to = IoEmit(k.sock), !.users = MapValues(onlineUsers')]
  /\ sent' = IF observe THEN MapValues(onlineUsers') ELSE sent
  /\ UNCHANGED <<sockets, nextId, messages, now, proc, observe>>

\* disconnect when the status write rejected
DisconnectFail(k) ==
  /\ proc = "running"
  /\ k.h = "disconnect"
  /\ UnhandledRejection("disconnectFail", k)
  /\ UNCHANGED <<nextId, userStatus, messages, now, sent, observe>>

\* a check that forgets the content
ValidPayloadSenderOnly(sender, content) == Truthy(sender)

\* if (!message.sender || !message.content)
ValidPayload(sender, content) == Truthy(sender) /\ Truthy(content)

\* the receiver looked up in the registry in place of the connected sockets
FindReceiverInRegistry(receiver) ==
  LET hits == {i \in 1..Len(onlineUsers) : onlineUsers[i].name = receiver} IN
  IF hits = {} THEN {} ELSE {onlineUsers[CHOOSE i \in hits : \A j \in hits : i <= j].id}

\* the last match in place of the first
FindReceiverLast(receiver) ==
  LET hits == {i \in 1..Len(sockets) : sockets[i].username = receiver} IN
  IF hits = {} THEN {} ELSE {sockets[CHOOSE i \in hits : \A j \in hits : i >= j].id}

\* Array.from(io.sockets.sockets.values()).find((s) => s.username === message.receiver)
FindReceiver(receiver) ==
  LET hits == {i \in 1..Len(sockets) : sockets[i].username = receiver} IN
  IF hits = {} THEN {} ELSE {sockets[CHOOSE i \in hits : \A j \in hits : i <= j].id}

\* io.emit whatever the receiver
SendTargetsAll(from, receiver) == IoEmit(from)

\* the sockets the saved message is emitted to
SendTargets(from, receiver) ==
  IF Truthy(receiver) THEN FindReceiver(receiver) ELSE IoEmit(from)

\* whether an emit call is made at all: if (receiverSocket) ... else io.emit(...)
SendEmits(receiver) == Truthy(receiver) => FindReceiver(receiver) # {}

\* isDelivered left to the schema default
NewMessageUndelivered(k) ==
  [id |-> Len(messages) + 1, sender |-> k.sender, receiver |-> OrNull(k.receiver),
   content |-> k.content, timestamp |-> k.ts, isDelivered |-> FALSE, isRead |-> FALSE]

\* the document Message.create stores
NewMessage(k) ==
  [id |-> Len(messages) + 1, sender |-> k.sender, receiver |-> OrNull(k.receiver),
   content |-> k.content, timestamp |-> k.ts, isDelivered |-> TRUE, isRead |-> FALSE]

\* socket.on("sendMessage") up to the await, or to the catch for an invalid payload
SendMessage(s, sender, receiver, content) ==
  /\ proc = "running"
  /\ s \in Live
  /\ IF ValidPayload(sender, content)
     THEN /\ CanSuspend
          /\ now <= MaxMessages
          /\ tasks' = Suspend([NoTask EXCEPT !.h = "sendMessage", !.sock = s, !.sender = sender,
                                               !.receiver = receiver, !.content = content, !.ts = now,
                                               !.before = (FindReceiver(receiver) # {})])
          /\ now' = now + 1
          /\ last' = [Quiet EXCEPT !.op = "sendMessage", !.sock = s]
     ELSE /\ last' = [Quiet EXCEPT !.op = "sendMessageInvalid", !.sock = s, !.sender = sender, !.content = content]
          /\ UNCHANGED <<tasks, now>>
  /\ UNCHANGED <<sockets, nextId, onlineUsers, userStatus, messages, proc, sent, observe>>

\* sendMessage after Message.create resolved
SendMessageDone(k) ==
  /\ proc = "running"
  /\ k.h = "sendMessage"
  /\ messages' = Append(messages, NewMessage(k))
  /\ tasks' = Resume(k)
  /\ last' = [Quiet EXCEPT !.op = "sendMessageDone", !.sock = k.sock, !.receiver = k.receiver, !.before = k.before,
                           !.msg = NewMessage(k), !.to = SendTargets(k.sock, k.receiver),
                           !.emit = IF SendEmits(k.receiver) THEN "receiveMessage" ELSE "none"]
  /\ UNCHANGED <<sockets, nextId, onlineUsers, userStatus, now, proc, sent, observe>>

\* a catch block that still emits the unsaved message
SendMessageFailEmits(k) ==
  /\ proc = "running"
  /\ k.h = "sendMessage"
  /\ tasks' = Resume(k)
  /\ last' = [Quiet EXCEPT !.op = "sendMessageFail", !.sock = k.sock, !.receiver = k.receiver,
                           !.msg = NewMessage(k), !.to = SendTargets(k.sock, k.receiver),
                           !.emit = IF SendEmits(k.receiver) THEN "receiveMessage" ELSE "none"]
  /\ UNCHANGED <<sockets, nextId, onlineUsers, userStatus, messages, now, proc, sent, observe>>

\* sendMessage when Message.create rejected: caught and logged
SendMessageFail(k) ==
  /\ proc = "running"
  /\ k.h = "sendMessage"
  /\ tasks' = Resume(k)
  /\ last' = [Quiet EXCEPT !.op = "sendMessageFail", !.sock = k.sock, !.receiver = k.receiver]
  /\ UNCHANGED <<sockets, nextId, onlineUsers, userStatus, messages, now, proc, sent, observe>>

\* const filter = {}; if (sender) filter.sender = sender; if (receiver) filter.receiver = receiver
Matches(m, sender, receiver) ==
  /\ Truthy(sender) => m.sender = sender
  /\ Truthy(receiver) => m.receiver = receiver

\* .sort({ timestamp: -1 }): descending, documents of equal timestamp in stored order
RECURSIVE SortByTimestampDesc(_)
SortByTimestampDesc(q) ==
  IF Len(q) <= 1 THEN q
  ELSE LET rest == SortByTimestampDesc(Tail(q))
           before == SelectSeq(rest, LAMBDA m : m.timestamp > Head(q).timestamp)
           after == SelectSeq(rest, LAMBDA m : m.timestamp <= Head(q).timestamp)
       IN before \o <<Head(q)>> \o after

\* app.get("/messages"): Message.find(filter).sort({ timestamp: -1 })
FindMessages(sender, receiver) ==
  SortByTimestampDesc(SelectSeq(messages, LAMBDA m : Matches(m, sender, receiver)))

\* socket.on("markAsRead") up to await Message.findById
MarkAsRead(s, id) ==
  /\ proc = "running"
  /\ s \in Live
  /\ CanSuspend
  /\ tasks' = Suspend([NoTask EXCEPT !.h = "markFind", !.sock = s, !.id = id])
  /\ last' = [Quiet EXCEPT !.op = "markAsRead", !.sock = s]
  /\ UNCHANGED <<sockets, nextId, onlineUsers, userStatus, messages, now, proc, sent, observe>>

\* the emit moved out of the if (message) block
MarkFindDoneEmits(k) ==
  /\ proc = "running"
  /\ k.h = "markFind"
  /\ IF k.id \in 1..Len(messages)
     THEN /\ tasks' = Resume(k) (+) SetToBag({[k EXCEPT !.h = "markSave"]})
          /\ last' = [Quiet EXCEPT !.op = "markFound", !.sock = k.sock]
     ELSE /\ tasks' = Resume(k)
          /\ last' = [Quiet EXCEPT !.op = "markNotFound", !.sock = k.sock,
                                   !.emit = "updateMessageStatus", !.to = IoEmit(k.sock),
                                   !.msg = [NoMsg EXCEPT !.id = k.id, !.isRead = TRUE]]
  /\ UNCHANGED <<sockets, nextId, onlineUsers, userStatus, messages, now, proc, sent, observe>>

\* markAsRead after findById resolved: if (message) { message.isRead = true; await message.save()
MarkFindDone(k) ==
  /\ proc = "running"
  /\ k.h = "markFind"
  /\ IF k.id \in 1..Len(messages)
     THEN /\ tasks' = Resume(k) (+) SetToBag({[k EXCEPT !.h = "markSave"]})
          /\ last' = [Quiet EXCEPT !.op = "markFound", !.sock = k.sock]
     ELSE /\ tasks' = Resume(k)
          /\ last' = [Quiet EXCEPT !.op = "markNotFound", !.sock = k.sock]
  /\ UNCHANGED <<sockets, nextId, onlineUsers, userStatus, messages, now, proc, sent, observe>>

\* a save that also stamps the message with the current time
MarkSaveDoneTouch(k) ==
  /\ proc = "running"
  /\ k.h = "markSave"
  /\ messages' = [messages EXCEPT ![k.id].isRead = TRUE, ![k.id].timestamp = now]
  /\ tasks' = Resume(k)
  /\ last' = [Quiet EXCEPT !.op = "markAsReadDone", !.sock = k.sock,
                           !.emit = "updateMessageStatus", !.to = IoEmit(k.sock),
                           !.msg = [NoMsg EXCEPT !.id = k.id, !.isRead = TRUE],
                           !.before = messages[k.id].isRead]
  /\ UNCHANGED <<sockets, nextId, onlineUsers, userStatus, now, proc, sent, observe>>

\* message.isRead = !message.isRead
MarkSaveDoneToggle(k) ==
  /\ proc = "running"
  /\ k.h = "markSave"
  /\ messages' = [messages EXCEPT ![k.id].isRead = ~messages[k.id].isRead]
  /\ tasks' = Resume(k)
  /\ last' = [Quiet EXCEPT !.op = "markAsReadDone", !.sock = k.sock,
                           !.emit = "updateMessageStatus", !.to = IoEmit(k.sock),
                           !.msg = [NoMsg EXCEPT !.id = k.id, !.isRead = TRUE],
                           !.before = messages[k.id].isRead]
  /\ UNCHANGED <<sockets, nextId, onlineUsers, userStatus, now, proc, sent, observe>>

\* socket.emit in place of io.emit: only the socket that marked the message
MarkSaveDoneSocketOnly(k) ==
  /\ proc = "running"
  /\ k.h = "markSave"
  /\ messages' = [messages EXCEPT ![k.id].isRead = TRUE]
  /\ tasks' = Resume(k)
  /\ last' = [Quiet EXCEPT !.op = "markAsReadDone", !.sock = k.sock,
                           !.emit = "updateMessageStatus", !.to = Live \cap {k.sock},
                           !.msg = [NoMsg EXCEPT !.id = k.id, !.isRead = TRUE],
                           !.before = messages[k.id].isRead]
  /\ UNCHANGED <<sockets, nextId, onlineUsers, userStatus, now, proc, sent, observe>>

\* markAsRead after message.save() resolved
MarkSaveDone(k) ==
  /\ proc = "running"
  /\ k.h = "markSave"
  /\ messages' = [messages EXCEPT ![k.id].isRead = TRUE]
  /\ tasks' = Resume(k)
  /\ last' = [Quiet EXCEPT !.op = "markAsReadDone", !.sock = k.sock,
                           !.emit = "updateMessageStatus", !.to = IoEmit(k.sock),
                           !.msg = [NoMsg EXCEPT !.id = k.id, !.isRead = TRUE],
                           !.before = messages[k.id].isRead]
  /\ UNCHANGED <<sockets, nextId, onlineUsers, userStatus, now, proc, sent, observe>>

\* markAsRead when findById or save rejected: caught and logged
MarkAsReadFail(k) ==
  /\ proc = "running"
  /\ k.h \in {"markFind", "markSave"}
  /\ tasks' = Resume(k)
  /\ last' = [Quiet EXCEPT !.op = "markAsReadFail", !.sock = k.sock]
  /\ UNCHANGED <<sockets, nextId, onlineUsers, userStatus, messages, now, proc, sent, observe>>

Next ==
  \/ Connect
  \/ \E s \in SocketIds, name \in UsernameInputs : SetUsername(s, name)
  \/ \E k \in Pending : SetUsernameDone(k)
  \/ \E k \in Pending : SetUsernameFail(k)
  \/ \E s \in SocketIds : Disconnect(s)
  \/ \E k \in Pending : DisconnectDone(k)
  \/ \E k \in Pending : DisconnectFail(k)
  \/ \E s \in SocketIds, sender \in SenderInputs, receiver \in ReceiverInputs, content \in ContentInputs :
       SendMessage(s, sender, receiver, content)
  \/ \E k \in Pending : SendMessageDone(k)
  \/ \E k \in Pending : SendMessageFail(k)
  \/ \E s \in SocketIds, id \in 1..MaxMessages : MarkAsRead(s, id)
  \/ \E k \in Pending : MarkFindDone(k)
  \/ \E k \in Pending : MarkSaveDone(k)
  \/ \E k \in Pending : MarkAsReadFail(k)

Spec == Init /\ [][Next]_vars

\* the runs in which no store call rejects
NextNoFail ==
  \/ Connect
  \/ \E s \in SocketIds, name \in UsernameInputs : SetUsername(s, name)
  \/ \E k \in Pending : SetUsernameDone(k)
  \/ \E s \in SocketIds : Disconnect(s)
  \/ \E k \in Pending : DisconnectDone(k)
  \/ \E s \in SocketIds, sender \in SenderInputs, receiver \in ReceiverInputs, content \in ContentInputs :
       SendMessage(s, sender, receiver, content)
  \/ \E k \in Pending : SendMessageDone(k)
  \/ \E s \in SocketIds, id \in 1..MaxMessages : MarkAsRead(s, id)
  \/ \E k \in Pending : MarkFindDone(k)
  \/ \E k \in Pending : MarkSaveDone(k)

SpecNoFail == InitObserved /\ [][NextNoFail]_vars

\* ------------------------------------------------------------------ claims

\* C1: a valid sendMessage whose receiver label is the username of exactly one
\* connected socket emits receiveMessage, carrying the saved message, to that
\* socket and to no other.
C1_AddressedToExactlyOne ==
  (/\ last.op = "sendMessageDone"
   /\ Truthy(last.receiver)
   /\ Cardinality({i \in 1..Len(sockets) : sockets[i].username = last.receiver}) = 1)
  => /\ last.emit = "receiveMessage"
     /\ last.to = {sockets[i].id : i \in {j \in 1..Len(sockets) : sockets[j].username = last.receiver}}
     /\ last.msg = messages[Len(messages)]
     /\ last.msg.receiver = last.receiver

C1_Witness ==
  /\ last.op = "sendMessageDone"
  /\ Len(sockets) = 2
  /\ last.sock \in Live
  /\ last.emit = "receiveMessage"
  /\ last.sock \notin last.to
  /\ \E i \in 1..Len(sockets) : sockets[i].username = last.receiver /\ last.to = {sockets[i].id}

\* C2: a valid sendMessage without receiver emits receiveMessage to every socket
\* connected at the emit, declared or not, the sender's own socket included.
C2_BroadcastToEveryLive ==
  (last.op = "sendMessageDone" /\ ~Truthy(last.receiver))
  => /\ last.emit = "receiveMessage"
     /\ last.to = {sockets[i].id : i \in 1..Len(sockets)}
     /\ last.msg = messages[Len(messages)]
     /\ last.msg.receiver = Null

C2_Witness ==
  /\ last.op = "sendMessageDone"
  /\ ~Truthy(last.receiver)
  /\ Len(sockets) = 2
  /\ last.sock \in last.to
  /\ \E i \in 1..Len(sockets) : sockets[i].username = Undefined /\ sockets[i].id \in last.to
  /\ Cardinality(last.to) = 2

\* C3: a valid sendMessage whose receiver label is the username of no connected
\* socket appends exactly one message (isDelivered true, isRead false) that the
\* /messages query filtered by that receiver returns, and emits nothing.
C3_UnmatchedStoredNotEmitted ==
  [][(/\ last'.op = "sendMessageDone"
      /\ Truthy(last'.receiver)
      /\ \A i \in 1..Len(sockets') : sockets'[i].username # last'.receiver)
     => /\ Len(messages') = Len(messages) + 1
        /\ SubSeq(messages', 1, Len(messages)) = messages
        /\ messages'[Len(messages')].receiver = last'.receiver
        /\ messages'[Len(messages')].isDelivered
        /\ ~messages'[Len(messages')].isRead
        /\ \A i \in 1..Len(messages) : messages'[Len(messages')].id # messages[i].id
        /\ \E i \in 1..Len(FindMessages(Undefined, last.receiver)') :
             FindMessages(Undefined, last.receiver)'[i] = messages'[Len(messages')]
        /\ last'.emit = "none"
        /\ last'.to = {}]_vars

C3_Witness ==
  /\ last.op = "sendMessageDone"
  /\ Truthy(last.receiver)
  /\ Len(sockets) = 2
  /\ \A i \in 1..Len(sockets) : sockets[i].username # last.receiver
  /\ \E i \in 1..Len(sockets) : Truthy(sockets[i].username)
  /\ last.emit = "none"
  /\ messages[Len(messages)].receiver = last.receiver

\* C4: an event is emitted only by the step that runs after the handler's store
\* call resolved, with the write visible in the store, and a step whose store
\* call rejected emits nothing.
C4_EmitOnlyAfterPersistence ==
  /\ last.emit = "receiveMessage" =>
       /\ last.op = "sendMessageDone"
       /\ last.msg.id \in 1..Len(messages)
       /\ messages[last.msg.id] = last.msg
  /\ last.emit = "updateMessageStatus" =>
       /\ last.op = "markAsReadDone"
       /\ last.msg.id \in 1..Len(messages)
       /\ messages[last.msg.id].isRead
  /\ last.emit = "onlineUsers" =>
       /\ last.op \in {"setUsernameDone", "disconnectDone"}
       /\ (last.op = "setUsernameDone" /\ last.name \in Labels) => userStatus[last.name] = "online"
       /\ (last.op = "disconnectDone" /\ last.name \in Labels) => userStatus[last.name] = "offline"
  /\ last.op \in {"sendMessageFail", "markAsReadFail", "setUsernameFail", "disconnectFail"} =>
       last.emit = "none" /\ last.to = {}

C4_Witness ==
  /\ last.op = "sendMessageFail"
  /\ Len(sockets) = 2
  /\ last.emit = "none"
  /\ messages = <<>>

\* C5: every entry of onlineUsers belongs to a connected socket.
C5_RegistryEntriesLive ==
  \A i \in 1..Len(onlineUsers) : onlineUsers[i].id \in Live

\* C6: when the disconnect handler of a socket that claimed label L finishes
\* while another connected socket still claims L, the stored status of L stays
\* "online".
C6_OfflineOnlyWhenLastSession ==
  [][(/\ last'.op = "disconnectDone"
      /\ last'.name \in Labels
      /\ userStatus[last'.name] = "online"
      /\ \E i \in 1..Len(onlineUsers') :
           onlineUsers'[i].name = last'.name /\ onlineUsers'[i].id \in Live')
     => userStatus'[last'.name] = "online"]_vars

\* C7: a rejected store call never leaves a handler as an unhandled rejection
\* and never ends the process.
C7_NoUnhandledRejection ==
  /\ proc = "running"
  /\ last.op \notin {"setUsernameFail", "disconnectFail"}

\* C8: a sendMessage with an empty or missing sender or content stores nothing
\* and emits nothing: no stored, pending or emitted message lacks either field.
C8_InvalidPayloadRejected ==
  /\ \A i \in 1..Len(messages) : Truthy(messages[i].sender) /\ Truthy(messages[i].content)
  /\ \A k \in Pending : k.h = "sendMessage" => Truthy(k.sender) /\ Truthy(k.content)
  /\ last.emit = "receiveMessage" => Truthy(last.msg.sender) /\ Truthy(last.msg.content)
  /\ last.op = "sendMessageInvalid" =>
       /\ ~(Truthy(last.sender) /\ Truthy(last.content))
       /\ last.emit = "none"
       /\ last.to = {}

C8_Witness ==
  /\ last.op = "sendMessageInvalid"
  /\ last.sender = "alice"
  /\ last.content = ""
  /\ Len(sockets) = 2
  /\ Pending = {}
  /\ messages = <<>>

\* C9: setUsername with an empty label changes nothing: no onlineUsers entry has
\* an empty label and no setUsername step runs for one.
C9_EmptyLabelRejected ==
  /\ \A i \in 1..Len(onlineUsers) : onlineUsers[i].name # ""
  /\ last.op \in {"setUsername", "setUsernameDone"} => last.name # ""

\* C10: markAsRead on a stored message, once saved, leaves isRead true in the
\* store and in the /messages query, and emits updateMessageStatus {_id, isRead:
\* true} to every connected socket.
C10_MarkReadStoredAndFannedOut ==
  last.op = "markAsReadDone"
  => /\ last.msg.id \in 1..Len(messages)
     /\ messages[last.msg.id].isRead
     /\ \E i \in 1..Len(FindMessages(Undefined, Undefined)) :
          /\ FindMessages(Undefined, Undefined)[i].id = last.msg.id
          /\ FindMessages(Undefined, Undefined)[i].isRead
     /\ last.emit = "updateMessageStatus"
     /\ last.msg.isRead
     /\ last.to = {sockets[i].id : i \in 1..Len(sockets)}

C10_Witness ==
  /\ last.op = "markAsReadDone"
  /\ Len(sockets) = 2
  /\ Cardinality(last.to) = 2
  /\ messages[last.msg.id].isRead
  /\ \E i \in 1..Len(sockets) :
       /\ sockets[i].username \notin {messages[last.msg.id].sender, messages[last.msg.id].receiver}
       /\ sockets[i].id \in last.to

\* C11: a markAsRead that saves leaves the store as one application does: isRead
\* true and nothing else changed, so a second save of the same message, after or
\* interleaved with the first, changes nothing; every save emits one
\* updateMessageStatus.
C11_MarkReadIdempotent ==
  [][last'.op = "markAsReadDone"
     => /\ last'.msg.id \in 1..Len(messages)
        /\ messages' = [messages EXCEPT ![last'.msg.id].isRead = TRUE]
        /\ messages[last'.msg.id].isRead => messages' = messages
        /\ last'.emit = "updateMessageStatus"
        /\ last'.msg.isRead]_vars

C11_Witness ==
  /\ last.op = "markAsReadDone"
  /\ last.before
  /\ messages[last.msg.id].isRead
  /\ last.emit = "updateMessageStatus"
  /\ Len(sockets) = 2

\* C12: a markAsRead whose identifier matches no stored message ends without
\* changing the store and without an emit.
C12_MarkReadAbsentIsNoOp ==
  [][last'.op = "markNotFound"
     => /\ \E k \in Pending :
             /\ k.h = "markFind"
             /\ k.sock = last'.sock
             /\ \A i \in 1..Len(messages) : messages[i].id # k.id
             /\ tasks' = Resume(k)
        /\ messages' = messages
        /\ last'.emit = "none"
        /\ last'.to = {}]_vars

C12_Witness ==
  /\ last.op = "markNotFound"
  /\ Len(sockets) = 2
  /\ messages = <<>>
  /\ last.emit = "none"

\* C13: setUsername binds the label to the socket's id, replacing the label the
\* id had and touching no other entry, so an id has at most one entry; declaring
\* the label it already has leaves the registry as it is; once the status write
\* resolved, onlineUsers is emitted to every connected socket with the labels of
\* the registry at that moment.
C13_DeclareBindsAndBroadcasts ==
  [][/\ \A i, j \in 1..Len(onlineUsers') : onlineUsers'[i].id = onlineUsers'[j].id => i = j
     /\ last'.op = "setUsername" =>
          /\ MapGet(onlineUsers', last'.sock) = last'.name
          /\ \A s \in SocketIds \ {last'.sock} :
               /\ MapHas(onlineUsers', s) = MapHas(onlineUsers, s)
               /\ MapGet(onlineUsers', s) = MapGet(onlineUsers, s)
          /\ (MapHas(onlineUsers, last'.sock) /\ MapGet(onlineUsers, last'.sock) = last'.name)
               => onlineUsers' = onlineUsers
     /\ last'.op = "setUsernameDone" =>
          /\ last'.emit = "onlineUsers"
          /\ last'.to = {sockets'[i].id : i \in 1..Len(sockets')}
          /\ last'.users = [i \in 1..Len(onlineUsers') |-> onlineUsers'[i].name]]_vars

C13_Witness ==
  /\ last.op = "setUsernameDone"
  /\ last.name = "alice"
  /\ MapGet(onlineUsers, last.sock) = "bob"
  /\ Len(onlineUsers) = 1
  /\ last.users = <<"bob">>
  /\ Cardinality(last.to) = 2

\* C14: the disconnect of a socket that has no registry entry changes neither
\* the registry nor any stored status, suspends no handler and emits nothing.
C14_UndeclaredCloseIsSilent ==
  [][(last'.op = "disconnect" /\ ~MapHas(onlineUsers, last'.sock))
     => /\ onlineUsers' = onlineUsers
        /\ userStatus' = userStatus
        /\ tasks' = tasks
        /\ last'.emit = "none"
        /\ last'.to = {}]_vars

C14_Witness ==
  /\ last.op = "disconnect"
  /\ last.name = Undefined
  /\ Len(sockets) = 1
  /\ Len(onlineUsers) = 1
  /\ onlineUsers[1].id \in Live
  /\ Pending = {}

C16_FirstMatchOnly ==
  (/\ last.op = "sendMessageDone"
   /\ Truthy(last.receiver)
   /\ Cardinality({i \in 1..Len(sockets) : sockets[i].username = last.receiver}) >= 2)
  => /\ last.emit = "receiveMessage"
     /\ \E i \in 1..Len(sockets) :
          /\ sockets[i].username = last.receiver
          /\ \A j \in 1..(i - 1) : sockets[j].username # last.receiver
          /\ last.to = {sockets[i].id}

C16_Witness ==
  /\ last.op = "sendMessageDone"
  /\ last.receiver = "alice"
  /\ Len(sockets) = 2
  /\ sockets[1].username = "alice"
  /\ sockets[2].username = "alice"
  /\ last.to = {sockets[1].id}
  /\ last.sock = sockets[2].id

\* C17: no step removes a stored message or changes its sender, receiver,
\* content, timestamp or isDelivered, isRead never returns to false, and the
\* only step that changes a stored message is the save of markAsRead on it.
C17_StoredMessagesStable ==
  [][/\ Len(messages') >= Len(messages)
     /\ \A i \in 1..Len(messages) :
          /\ messages'[i].id = messages[i].id
          /\ messages'[i].sender = messages[i].sender
          /\ messages'[i].receiver = messages[i].receiver
          /\ messages'[i].content = messages[i].content
          /\ messages'[i].timestamp = messages[i].timestamp
          /\ messages'[i].isDelivered = messages[i].isDelivered
          /\ messages[i].isRead => messages'[i].isRead
          /\ messages'[i] # messages[i] =>
               last'.op = "markAsReadDone" /\ last'.msg.id = messages[i].id]_vars

C17_Witness ==
  /\ last.op = "disconnectDone"
  /\ Len(messages) = 1
  /\ messages[1].isRead
  /\ messages[1].receiver = last.name

\* C18: a sendMessage whose receiver disconnects while Message.create is pending
\* is not lost with the socket: it completes with the message stored and no
\* emit; and a socket the lookup finds is connected when the emit is made.
C18_ReceiverClosedMidSend ==
  [][/\ last'.op = "disconnect" =>
          \A k \in Pending : k.h = "sendMessage" => k \in BagToSet(tasks')
     /\ last'.op = "sendMessageDone" =>
          /\ proc' = "running"
          /\ Len(messages') = Len(messages) + 1
          /\ messages'[Len(messages')] = last'.msg
          /\ last'.to \subseteq {sockets'[i].id : i \in 1..Len(sockets')}
          /\ (/\ last'.before
              /\ Truthy(last'.receiver)
              /\ \A i \in 1..Len(sockets') : sockets'[i].username # last'.receiver)
             => last'.emit = "none" /\ last'.to = {}]_vars

C18_Witness ==
  /\ last.op = "sendMessageDone"
  /\ last.before
  /\ last.receiver = "alice"
  /\ \A i \in 1..Len(sockets) : sockets[i].username # "alice"
  /\ last.sock \in Live
  /\ last.emit = "none"
  /\ messages[Len(messages)].receiver = "alice"
  /\ proc = "running"

\* C19: with no handler suspended and no store call rejected so far, every label
\* whose stored status is "online" is the label of some registry entry.
C19_OnlineImpliesClaimed ==
  Pending = {} =>
    \A l \in Labels :
      userStatus[l] = "online" => \E i \in 1..Len(onlineUsers) : onlineUsers[i].name = l

\* C20: with no setUsername or disconnect handler suspended and no store call
\* rejected so far, the payload of the most recent onlineUsers event is the
\* sequence of the labels now in the registry.
C20_LastPayloadIsRegistry ==
  (\A k \in Pending : k.h \notin {"setUsername", "disconnect"})
  => sent = [i \in 1..Len(onlineUsers) |-> onlineUsers[i].name]

C20_Witness ==
  /\ Pending = {}
  /\ last.op = "disconnectDone"
  /\ last.name = "alice"
  /\ onlineUsers = <<[id |-> 2, name |-> "bob"]>>
  /\ sent = <<"bob">>
  /\ last.to = {2}
====
